---- MODULE Spec2Model ----
(***************************************************************************)
(* Model of the veritas validation library: the CPF and CNPJ validators,   *)
(* the string, phone, number, email and URL validators and                 *)
(* ValidateMultiple.  A text is a sequence of one-character strings; a     *)
(* call is a frame of the function's local variables together with the     *)
(* stage it has reached.                                                   *)
(***************************************************************************)
EXTENDS Integers, Sequences, FiniteSets, TLC

VARIABLES call, prev

vars == <<call, prev>>

(***************************************************************************)
(* Characters and conversions                                              *)
(***************************************************************************)

\* the decimal digit characters '0'..'9'
DigitChars == <<"0", "1", "2", "3", "4", "5", "6", "7", "8", "9">>

\* characters the regular expression \D leaves in place
IsDigitChar(c) == \E i \in 1..Len(DigitChars) : DigitChars[i] = c

\* string(rune(n + '0')): the character whose code is n above '0'
RuneFromZero(n) ==
    IF n \in 0..9 THEN DigitChars[n + 1]
    ELSE IF n = 10 THEN ":"
    ELSE IF n = 11 THEN ";"
    ELSE "?"

\* strconv.Atoi(string(digit)) with the error dropped: 0 for a non-digit
Atoi(c) ==
    IF IsDigitChar(c)
    THEN (CHOOSE i \in 1..Len(DigitChars) : DigitChars[i] = c) - 1
    ELSE 0

\* the %d verb of fmt.Sprintf for a non-negative integer
RECURSIVE FormatInt(_)
FormatInt(n) ==
    IF n < 10 THEN <<DigitChars[n + 1]>>
    ELSE Append(FormatInt(n \div 10), DigitChars[(n % 10) + 1])

\* fmt.Sprintf("%d%d", a, b)
Sprintf2(a, b) == FormatInt(a) \o FormatInt(b)

\* variant: only the usual punctuation is removed, as by `[ .\-/]`
RemovePunctuationOnly(s) == SelectSeq(s, LAMBDA c : c \notin {" ", ".", "-", "/"})

\* regexp.MustCompile(`\D`).ReplaceAllString(s, "")
ReplaceAllNonDigit(s) == SelectSeq(s, IsDigitChar)

(***************************************************************************)
(* Constants of the two validators                                         *)
(***************************************************************************)

CPFDigits == 11
CPFBaseLen == 9
CNPJDigits == 14
CNPJBaseLen == 12
Modulus == 11
MinRemainder == 2

\* variant: the first CPF weights in ascending order
CPFWeights1Ascending == <<2, 3, 4, 5, 6, 7, 8, 9, 10>>
CPFWeights1 == <<10, 9, 8, 7, 6, 5, 4, 3, 2>>
CPFWeights2 == <<11, 10, 9, 8, 7, 6, 5, 4, 3, 2>>
CNPJWeights1 == <<5, 4, 3, 2, 9, 8, 7, 6, 5, 4, 3, 2>>
CNPJWeights2 == <<6, 5, 4, 3, 2, 9, 8, 7, 6, 5, 4, 3, 2>>

Kinds == {"CPF", "CNPJ"}

RequiredLen(kind) == IF kind = "CPF" THEN CPFDigits ELSE CNPJDigits
BaseLen(kind) == IF kind = "CPF" THEN CPFBaseLen ELSE CNPJBaseLen
Weights1(kind) == IF kind = "CPF" THEN CPFWeights1 ELSE CNPJWeights1
Weights2(kind) == IF kind = "CPF" THEN CPFWeights2 ELSE CNPJWeights2

\* outcomes: nil, the four messages of each validator, a run-time panic
Valid == "nil"
Pending == "pending"
Panic == "panic: index out of range"
ErrNotString(kind) ==
    IF kind = "CPF" THEN "CPF must be a string" ELSE "CNPJ must be a string"
ErrLength(kind) ==
    IF kind = "CPF" THEN "CPF must have exactly 11 digits"
    ELSE "CNPJ must have exactly 14 digits"
ErrIdentical(kind) ==
    IF kind = "CPF" THEN "CPF cannot be a sequence of identical digits"
    ELSE "CNPJ cannot be a sequence of identical digits"
ErrCheckDigits(kind) ==
    IF kind = "CPF" THEN "invalid CPF check digits"
    ELSE "invalid CNPJ check digits"

(***************************************************************************)
(* The loops of the validators                                             *)
(***************************************************************************)

\* CPF: for _, digit := range cpfStr { if digit != firstDigit { break };
\*        if digit == last { return error } }; TRUE when the loop returns
RECURSIVE CPFSequenceLoop(_, _)
CPFSequenceLoop(s, i) ==
    IF i > Len(s) THEN FALSE
    ELSE IF s[i] # s[1] THEN FALSE
    ELSE IF s[i] = s[Len(s)] THEN TRUE
    ELSE CPFSequenceLoop(s, i + 1)

\* CNPJ: allSame := true; for ... { if digit != firstDigit { allSame = false;
\*        break } }
RECURSIVE CNPJAllSameLoop(_, _)
CNPJAllSameLoop(s, i) ==
    IF i > Len(s) THEN TRUE
    ELSE IF s[i] # s[1] THEN FALSE
    ELSE CNPJAllSameLoop(s, i + 1)

RejectedAsSequence(kind, s) ==
    IF kind = "CPF" THEN CPFSequenceLoop(s, 1) ELSE CNPJAllSameLoop(s, 1)

\* for i, digit := range digits { sum += Atoi(digit) * weights[i] }
RECURSIVE WeightedSum(_, _, _, _)
WeightedSum(digits, weights, i, sum) ==
    IF i > Len(digits) THEN sum
    ELSE WeightedSum(digits, weights, i + 1, sum + Atoi(digits[i]) * weights[i])

\* variant: the rule for remainders below 2 is left out
CheckDigitNoZeroRule(sum) == Modulus - (sum % Modulus)

\* variant: the zero rule applies to remainder 0 only
CheckDigitFromOne(sum) ==
    LET remainder == sum % Modulus
    IN  IF remainder >= 1 THEN Modulus - remainder ELSE 0

\* remainder := sum % 11; digit := 0; if remainder >= 2 { digit = 11 - remainder }
CheckDigit(sum) ==
    LET remainder == sum % Modulus
    IN  IF remainder >= MinRemainder THEN Modulus - remainder ELSE 0

(***************************************************************************)
(* A call: the frame of locals and the stage reached                       *)
(***************************************************************************)

\* variant: the accumulator keeps the value the last call left in it
StaleSum(f) == f.sum1

\* sum1 := 0, sum2 := 0
ZeroSum(f) == 0

NewFrame(kind, input) ==
    [kind |-> kind, input |-> input, pc |-> "Start", outcome |-> Pending,
     str |-> <<>>, baseDigits |-> <<>>, checkDigits |-> <<>>,
     sum1 |-> 0, firstCheckDigit |-> 0, sum2 |-> 0, secondCheckDigit |-> 0,
     expectedCheckDigits |-> <<>>]

Return(f, stage, result) == [f EXCEPT !.pc = stage, !.outcome = result]

\* variant: an integer is formatted to text instead of being refused
TypeCheckStepFormatsNumbers(f) ==
    IF f.input.type \notin {"string", "int"}
    THEN Return(f, "TypeChecked", ErrNotString(f.kind))
    ELSE [f EXCEPT !.pc = "TypeChecked", !.str = f.input.chars]

\* cpfStr, ok := cpf.(string); if !ok { return "... must be a string" }
TypeCheckStep(f) ==
    IF f.input.type # "string"
    THEN Return(f, "TypeChecked", ErrNotString(f.kind))
    ELSE [f EXCEPT !.pc = "TypeChecked", !.str = f.input.chars]

\* cpfStr = re.ReplaceAllString(cpfStr, "")
NormalizeStep(f) ==
    [f EXCEPT !.pc = "Normalized", !.str = ReplaceAllNonDigit(f.str)]

\* variant: the identical-digits test runs ahead of the length test
LengthCheckAfterSequence(f) ==
    IF Len(f.str) >= 1 /\ RejectedAsSequence(f.kind, f.str)
    THEN Return(f, "LengthChecked", ErrIdentical(f.kind))
    ELSE IF Len(f.str) # RequiredLen(f.kind)
    THEN Return(f, "LengthChecked", ErrLength(f.kind))
    ELSE [f EXCEPT !.pc = "LengthChecked"]

\* variant: only a text that is too short is refused
LengthCheckTooShortOnly(f) ==
    IF Len(f.str) < RequiredLen(f.kind)
    THEN Return(f, "LengthChecked", ErrLength(f.kind))
    ELSE [f EXCEPT !.pc = "LengthChecked"]

\* variant: only a text that is too long is refused
LengthCheckTooLongOnly(f) ==
    IF Len(f.str) > RequiredLen(f.kind)
    THEN Return(f, "LengthChecked", ErrLength(f.kind))
    ELSE [f EXCEPT !.pc = "LengthChecked"]

\* if len(cpfStr) != 11 { return "... must have exactly 11 digits" }
LengthCheckStep(f) ==
    IF Len(f.str) # RequiredLen(f.kind)
    THEN Return(f, "LengthChecked", ErrLength(f.kind))
    ELSE [f EXCEPT !.pc = "LengthChecked"]

\* variant: the identical-digits test is left out
SequenceCheckSkipped(f) == [f EXCEPT !.pc = "SequenceChecked"]

\* firstDigit := cpfStr[0]; the loop over the digits
SequenceCheckStep(f) ==
    IF Len(f.str) < 1
    THEN Return(f, "SequenceChecked", Panic)
    ELSE IF RejectedAsSequence(f.kind, f.str)
    THEN Return(f, "SequenceChecked", ErrIdentical(f.kind))
    ELSE [f EXCEPT !.pc = "SequenceChecked"]

\* variant: the first check digit is appended to the normalized text itself
ComputeStepAppendsInPlace(f) ==
    LET n == BaseLen(f.kind)
        base == SubSeq(f.str, 1, n)
        s1 == WeightedSum(base, Weights1(f.kind), 1, ZeroSum(f))
        d1 == CheckDigit(s1)
        grown == Append(base, RuneFromZero(d1))
        s2 == WeightedSum(grown, Weights2(f.kind), 1, ZeroSum(f))
        d2 == CheckDigit(s2)
        str == grown \o SubSeq(f.str, n + 2, Len(f.str))
    IN  [f EXCEPT !.pc = "CheckDigitsComputed", !.str = str, !.baseDigits = base,
                  !.checkDigits = SubSeq(str, n + 1, Len(str)), !.sum1 = s1,
                  !.firstCheckDigit = d1, !.sum2 = s2, !.secondCheckDigit = d2]

\* baseDigits, checkDigits, both weighted sums and both check digits
ComputeStep(f) ==
    LET n == BaseLen(f.kind)
    IN  IF Len(f.str) < n \/ n > Len(Weights1(f.kind)) \/ n + 1 > Len(Weights2(f.kind))
        THEN Return(f, "CheckDigitsComputed", Panic)
        ELSE
        LET base == SubSeq(f.str, 1, n)
            check == SubSeq(f.str, n + 1, Len(f.str))
            s1 == WeightedSum(base, Weights1(f.kind), 1, ZeroSum(f))
            d1 == CheckDigit(s1)
            s2 == WeightedSum(Append(base, RuneFromZero(d1)), Weights2(f.kind), 1, ZeroSum(f))
            d2 == CheckDigit(s2)
        IN  [f EXCEPT !.pc = "CheckDigitsComputed", !.baseDigits = base,
                      !.checkDigits = check, !.sum1 = s1, !.firstCheckDigit = d1,
                      !.sum2 = s2, !.secondCheckDigit = d2]

\* variant: only the first check digit is compared
CompareStepFirstDigitOnly(f) ==
    LET expected == Sprintf2(f.firstCheckDigit, f.secondCheckDigit)
    IN  [f EXCEPT !.pc = "Compared", !.expectedCheckDigits = expected,
                  !.outcome = IF f.checkDigits[1] # expected[1]
                              THEN ErrCheckDigits(f.kind) ELSE Valid]

\* variant: a mismatch sends the call back to its first stage
CompareStepRetries(f) ==
    LET expected == Sprintf2(f.firstCheckDigit, f.secondCheckDigit)
    IN  IF f.checkDigits # expected
        THEN [f EXCEPT !.pc = "Start", !.expectedCheckDigits = expected]
        ELSE [f EXCEPT !.pc = "Compared", !.expectedCheckDigits = expected,
                       !.outcome = Valid]

\* variant: only the second check digit is compared
CompareStepSecondDigitOnly(f) ==
    LET expected == Sprintf2(f.firstCheckDigit, f.secondCheckDigit)
    IN  [f EXCEPT !.pc = "Compared", !.expectedCheckDigits = expected,
                  !.outcome = IF f.checkDigits[2] # expected[2]
                              THEN ErrCheckDigits(f.kind) ELSE Valid]

\* expected := Sprintf("%d%d", ...); if checkDigits != expected { return error }; return nil
CompareStep(f) ==
    LET expected == Sprintf2(f.firstCheckDigit, f.secondCheckDigit)
    IN  [f EXCEPT !.pc = "Compared", !.expectedCheckDigits = expected,
                  !.outcome = IF f.checkDigits # expected
                              THEN ErrCheckDigits(f.kind) ELSE Valid]

(***************************************************************************)
(* Input values: a value has a representation (type) and a content         *)
(***************************************************************************)

MaxBaseDigit == 2
MaxDigits == 15
MaxInserts == 1
MaxCalls == 2
NumCallers == 2

\* the text of a sequence of digit values
Text(ds) == [i \in 1..Len(ds) |-> DigitChars[ds[i] + 1]]

Repeat(d, n) == [i \in 1..n |-> d]

\* the counting sequence 1234567890123...
Counting(n) == [i \in 1..n |-> i % 10]

Str(chars) == [type |-> "string", chars |-> chars]

NonStringTypes == {"int", "float64", "bool", "nil", "slice"}

\* non-digit characters found in formatted documents
Separators == {" ", ".", "-", "/", "(", ")", "a"}

InsertAt(s, p, c) == SubSeq(s, 1, p) \o <<c>> \o SubSeq(s, p + 1, Len(s))

RECURSIVE Decorated(_, _)
Decorated(S, k) ==
    IF k = 0 THEN S
    ELSE LET T == Decorated(S, k - 1)
         IN  T \cup UNION {{InsertAt(s, p, c) : p \in 0..Len(s), c \in Separators} : s \in T}

\* documents used by the repository's tests and examples
CPFValid1 == <<"1", "1", "1", ".", "4", "4", "4", ".", "7", "7", "7", "-", "3", "5">>
CPFValid2 == <<"1", "2", "3", ".", "4", "5", "6", ".", "7", "8", "9", "-", "0", "9">>
CPFBadCheck == <<"1", "1", "1", ".", "4", "4", "4", ".", "7", "7", "7", "-", "4", "5">>
CNPJValid1 == <<"1", "1", ".", "2", "2", "2", ".", "3", "3", "3", "/", "0", "0", "0", "1", "-", "8", "1">>
CNPJValid2 == <<"1", "2", ".", "3", "4", "5", ".", "6", "7", "8", "/", "0", "0", "0", "1", "-", "9", "5">>
CNPJBadCheck == <<"1", "1", ".", "2", "2", "2", ".", "3", "3", "3", "/", "0", "0", "0", "1", "-", "9", "1">>
CNPJSpaced == <<"1", "1", " ", "2", "2", "2", " ", "3", "3", "3", " ", "0", "0", "0", "1", " ", "8", "1">>
CPFWithLetter == <<"1", "2", "3", "4", "5", "6", "7", "8", "9", "0", "a">>
LettersOnly == <<"a", "b", "c", ".", "d", "e", "f", ".", "g", "h", "i", "-", "j", "k">>
SpacesOnly == <<" ", " ", " ">>
CPFZeros == <<"0", "0", "0", ".", "0", "0", "0", ".", "0", "0", "0", "-", "0", "0">>
CNPJZeros == <<"0", "0", ".", "0", "0", "0", ".", "0", "0", "0", "/", "0", "0", "0", "0", "-", "0", "0">>

CPFValid1Plain == Text(<<1, 1, 1, 4, 4, 4, 7, 7, 7, 3, 5>>)
CNPJValid1Plain == Text(<<1, 1, 2, 2, 2, 3, 3, 3, 0, 0, 0, 1, 8, 1>>)

TestTexts ==
    {CPFValid1, CPFValid2, CPFBadCheck, CNPJValid1, CNPJValid2, CNPJBadCheck,
     CNPJSpaced, CPFWithLetter, LettersOnly, SpacesOnly, CPFZeros, CNPJZeros,
     CPFValid1Plain, CNPJValid1Plain, <<>>}

BaseDigitSet == 0..MaxBaseDigit

\* 11-digit texts: three runs of three base digits and every pair of check digits
CPFShaped ==
    {Text(Repeat(d, 3) \o Repeat(e, 3) \o Repeat(f, 3) \o <<x, y>>) :
        d \in BaseDigitSet, e \in BaseDigitSet, f \in BaseDigitSet,
        x \in 0..9, y \in 0..9}

\* 14-digit texts: three runs of four base digits and every pair of check digits
CNPJShaped ==
    {Text(Repeat(d, 4) \o Repeat(e, 4) \o Repeat(f, 4) \o <<x, y>>) :
        d \in BaseDigitSet, e \in BaseDigitSet, f \in BaseDigitSet,
        x \in 0..9, y \in 0..9}

\* one repeated digit, and the counting sequence, at every length
Runs == {Text(Repeat(d, n)) : d \in 0..9, n \in 0..MaxDigits}
Prefixes == {Text(Counting(n)) : n \in 0..MaxDigits}

\* texts into which further non-digit characters are inserted
Seeds ==
    {CPFValid1Plain, CPFBadCheck, CNPJValid1, Text(Repeat(7, CPFDigits)),
     Text(Counting(CNPJDigits - 1))}

Texts ==
    CPFShaped \cup CNPJShaped \cup Runs \cup Prefixes \cup TestTexts
        \cup Decorated(Seeds, MaxInserts)

NonStrings ==
    {[type |-> t, chars |-> s] : t \in NonStringTypes,
                                 s \in {<<>>, CPFValid1Plain,
                                        CNPJValid1Plain}}

Inputs == {Str(s) : s \in Texts} \cup NonStrings

\* a small set of values for repeated and for concurrent calls
FewInputs ==
    {Str(CPFValid1), Str(CPFBadCheck), Str(CNPJValid1), Str(CNPJBadCheck),
     Str(Text(Repeat(7, CPFDigits))), Str(Text(Counting(4))),
     [type |-> "int", chars |-> CPFValid1Plain]}

(***************************************************************************)
(* State machine                                                           *)
(***************************************************************************)

Callers == DOMAIN call

\* variant: the working text and sums live in one place shared by all calls
SharedFrame(c) ==
    LET o == call[CHOOSE d \in Callers : \A e \in Callers : d <= e]
    IN  [call[c] EXCEPT !.str = o.str, !.baseDigits = o.baseDigits,
                        !.checkDigits = o.checkDigits, !.sum1 = o.sum1,
                        !.firstCheckDigit = o.firstCheckDigit, !.sum2 = o.sum2,
                        !.secondCheckDigit = o.secondCheckDigit]

\* the locals a call reads are its own
Frame(c) == call[c]

Running(c) == call[c].outcome = Pending
Finished(c) == call[c].outcome # Pending

Init ==
    /\ \E kind \in Kinds, v \in Inputs : call = [c \in {1} |-> NewFrame(kind, v)]
    /\ prev = [c \in {1} |-> <<>>]

InitSeq ==
    /\ \E kind \in Kinds, v \in FewInputs : call = [c \in {1} |-> NewFrame(kind, v)]
    /\ prev = [c \in {1} |-> <<>>]

InitConc ==
    /\ call \in [1..NumCallers -> {NewFrame(kind, v) : kind \in Kinds, v \in FewInputs}]
    /\ prev = [c \in 1..NumCallers |-> <<>>]

Advance(c, f) ==
    /\ call' = [call EXCEPT ![c] = f]
    /\ UNCHANGED prev

TypeCheck(c) ==
    /\ Running(c) /\ call[c].pc = "Start"
    /\ Advance(c, TypeCheckStep(Frame(c)))

Normalize(c) ==
    /\ Running(c) /\ call[c].pc = "TypeChecked"
    /\ Advance(c, NormalizeStep(Frame(c)))

LengthCheck(c) ==
    /\ Running(c) /\ call[c].pc = "Normalized"
    /\ Advance(c, LengthCheckStep(Frame(c)))

SequenceCheck(c) ==
    /\ Running(c) /\ call[c].pc = "LengthChecked"
    /\ Advance(c, SequenceCheckStep(Frame(c)))

ComputeCheckDigits(c) ==
    /\ Running(c) /\ call[c].pc = "SequenceChecked"
    /\ Advance(c, ComputeStep(Frame(c)))

Compare(c) ==
    /\ Running(c) /\ call[c].pc = "CheckDigitsComputed"
    /\ Advance(c, CompareStep(Frame(c)))

\* the caller calls a validator again once the last call has returned
CallAgain(c) ==
    /\ Finished(c)
    /\ Len(prev[c]) + 1 < MaxCalls
    /\ \E kind \in Kinds, v \in FewInputs :
          call' = [call EXCEPT ![c] = [call[c] EXCEPT !.kind = kind, !.input = v,
                                                      !.pc = "Start",
                                                      !.outcome = Pending]]
    /\ prev' = [prev EXCEPT ![c] = Append(prev[c],
                    [kind |-> call[c].kind, input |-> call[c].input,
                     outcome |-> call[c].outcome])]

DoTypeCheck == \E c \in Callers : TypeCheck(c)
DoNormalize == \E c \in Callers : Normalize(c)
DoLengthCheck == \E c \in Callers : LengthCheck(c)
DoSequenceCheck == \E c \in Callers : SequenceCheck(c)
DoComputeCheckDigits == \E c \in Callers : ComputeCheckDigits(c)
DoCompare == \E c \in Callers : Compare(c)
DoCallAgain == \E c \in Callers : CallAgain(c)

Next ==
    \/ DoTypeCheck
    \/ DoNormalize
    \/ DoLengthCheck
    \/ DoSequenceCheck
    \/ DoComputeCheckDigits
    \/ DoCompare

NextSeq == Next \/ DoCallAgain

Spec == Init /\ [][Next]_vars

SpecSeq == InitSeq /\ [][NextSeq]_vars

SpecConc == InitConc /\ [][Next]_vars

(***************************************************************************)
(* The whole function: the stages composed in program order                *)
(***************************************************************************)

\* one call on a test document, a run of one digit or a counting sequence
LiveInputs == FewInputs \cup {Str(s) : s \in Runs \cup Prefixes}

InitLive ==
    /\ \E kind \in Kinds, v \in LiveInputs : call = [c \in {1} |-> NewFrame(kind, v)]
    /\ prev = [c \in {1} |-> <<>>]

\* a call is a straight-line function body: a step that can run does run
SpecLive == InitLive /\ [][Next]_vars /\ WF_vars(Next)

StepOf(f) ==
    CASE f.pc = "Start" -> TypeCheckStep(f)
      [] f.pc = "TypeChecked" -> NormalizeStep(f)
      [] f.pc = "Normalized" -> LengthCheckStep(f)
      [] f.pc = "LengthChecked" -> SequenceCheckStep(f)
      [] f.pc = "SequenceChecked" -> ComputeStep(f)
      [] OTHER -> CompareStep(f)

RECURSIVE RunFrame(_)
RunFrame(f) == IF f.outcome # Pending THEN f ELSE RunFrame(StepOf(f))

\* the error value returned by v.CPF(value) / ValidateCNPJ(value)
Validate(kind, value) == RunFrame(NewFrame(kind, value)).outcome

(***************************************************************************)
(* Vocabulary of the properties                                            *)
(***************************************************************************)

DecimalDigits == {"0", "1", "2", "3", "4", "5", "6", "7", "8", "9"}

\* the digit subsequence of a text, in order
DigitsOf(s) == SelectSeq(s, LAMBDA ch : ch \in DecimalDigits)

ValueOf(ch) ==
    CASE ch = "0" -> 0 [] ch = "1" -> 1 [] ch = "2" -> 2 [] ch = "3" -> 3
      [] ch = "4" -> 4 [] ch = "5" -> 5 [] ch = "6" -> 6 [] ch = "7" -> 7
      [] ch = "8" -> 8 [] ch = "9" -> 9

ValuesOf(s) == [i \in 1..Len(s) |-> ValueOf(s[i])]

AllSame(s) == \A i \in 1..Len(s) : s[i] = s[1]

RECURSIVE DotProduct(_, _, _)
DotProduct(ds, ws, i) ==
    IF i > Len(ws) THEN 0 ELSE ds[i] * ws[i] + DotProduct(ds, ws, i + 1)

Mod11Digit(sum) == IF sum % 11 < 2 THEN 0 ELSE 11 - (sum % 11)

\* the two check digits of a base, by the published rule
PublishedWeights1(kind) ==
    IF kind = "CPF" THEN [i \in 1..9 |-> 11 - i]
    ELSE <<5, 4, 3, 2, 9, 8, 7, 6, 5, 4, 3, 2>>
PublishedWeights2(kind) ==
    IF kind = "CPF" THEN [i \in 1..10 |-> 12 - i]
    ELSE <<6, 5, 4, 3, 2, 9, 8, 7, 6, 5, 4, 3, 2>>
PublishedLen(kind) == IF kind = "CPF" THEN 11 ELSE 14

FirstCheck(kind, ds) == Mod11Digit(DotProduct(ds, PublishedWeights1(kind), 1))
SecondCheck(kind, ds) ==
    Mod11Digit(DotProduct([ds EXCEPT ![PublishedLen(kind) - 1] = FirstCheck(kind, ds)],
                          PublishedWeights2(kind), 1))

\* ds has the required length and its last two digits are its check digits
ChecksumOK(kind, ds) ==
    /\ ds[PublishedLen(kind) - 1] = FirstCheck(kind, ds)
    /\ ds[PublishedLen(kind)] = SecondCheck(kind, ds)

IsText(c) == call[c].input.type = "string"
InputDigits(c) == DigitsOf(call[c].input.chars)
HasLength(c) == Len(InputDigits(c)) = PublishedLen(call[c].kind)

\* the outcome the published contract gives a well-formed, non-degenerate document
ChecksumContract(c) ==
    (Finished(c) /\ IsText(c) /\ HasLength(c) /\ ~AllSame(InputDigits(c)))
        => call[c].outcome =
              IF ChecksumOK(call[c].kind, ValuesOf(InputDigits(c)))
              THEN Valid ELSE ErrCheckDigits(call[c].kind)

(***************************************************************************)
(* C1..C10                                                                 *)
(***************************************************************************)

\* C1: a CPF text whose 11 digits are not all the same is valid when its last
\* two digits are the check digits of its first nine, and otherwise gets
\* "invalid CPF check digits"; nothing else is returned for it.
C1_CPFChecksumContract ==
    \A c \in Callers : call[c].kind = "CPF" => ChecksumContract(c)

\* C2: a CNPJ text whose 14 digits are not all the same is valid when its last
\* two digits are the check digits of its first twelve, and otherwise gets
\* "invalid CNPJ check digits"; nothing else is returned for it.
C2_CNPJChecksumContract ==
    \A c \in Callers : call[c].kind = "CNPJ" => ChecksumContract(c)

C2_Witness ==
    \E c \in Callers :
        /\ call[c].kind = "CNPJ" /\ Finished(c) /\ IsText(c) /\ HasLength(c)
        /\ ~AllSame(InputDigits(c))
        /\ InputDigits(c)[1] = InputDigits(c)[14]
        /\ call[c].outcome = Valid

\* C3: a text whose digits have the required length and are one repeated
\* digit gets the identical-digits failure from both validators, also when
\* its last two digits satisfy the checksum.
C3_DegenerateRejected ==
    \A c \in Callers :
        (Finished(c) /\ IsText(c) /\ HasLength(c) /\ AllSame(InputDigits(c)))
            => call[c].outcome = ErrIdentical(call[c].kind)

C3_Witness ==
    \E c \in Callers :
        /\ Finished(c) /\ IsText(c) /\ HasLength(c) /\ AllSame(InputDigits(c))
        /\ call[c].kind = "CNPJ"
        /\ ChecksumOK(call[c].kind, ValuesOf(InputDigits(c)))
        /\ call[c].outcome = ErrIdentical(call[c].kind)

\* C4: the failures are reported in the order type, length, identical digits,
\* check digits: an input that meets an earlier condition gets that failure.
C4_PriorityOrder ==
    \A c \in Callers :
        Finished(c) =>
            /\ ~IsText(c) => call[c].outcome = ErrNotString(call[c].kind)
            /\ (IsText(c) /\ ~HasLength(c)) => call[c].outcome = ErrLength(call[c].kind)
            /\ (IsText(c) /\ HasLength(c) /\ AllSame(InputDigits(c)))
                  => call[c].outcome = ErrIdentical(call[c].kind)
            /\ call[c].outcome = ErrCheckDigits(call[c].kind)
                  => (IsText(c) /\ HasLength(c) /\ ~AllSame(InputDigits(c)))

C4_Witness ==
    \E c \in Callers :
        /\ Finished(c) /\ IsText(c) /\ ~HasLength(c)
        /\ Len(InputDigits(c)) = 13 /\ AllSame(InputDigits(c))
        /\ call[c].kind = "CNPJ"
        /\ call[c].outcome = ErrLength("CNPJ")

\* C5: a text whose digit count differs from the required length gets exactly
\* the length failure; the empty text, texts without digits and texts where a
\* letter stands for a digit are cases of it.
C5_LengthRule ==
    \A c \in Callers :
        (Finished(c) /\ IsText(c) /\ ~HasLength(c))
            => /\ call[c].outcome = ErrLength(call[c].kind)
               /\ call[c].pc = "LengthChecked"

C5_Witness ==
    \E c \in Callers :
        /\ Finished(c) /\ call[c].kind = "CPF"
        /\ call[c].input = Str(CPFWithLetter)
        /\ call[c].outcome = ErrLength("CPF")

\* C6: a value that is not a text fails with the must-be-a-string message
\* before normalization; no text gets that message.
C6_TypeGuard ==
    \A c \in Callers :
        Finished(c) =>
            /\ ~IsText(c) => /\ call[c].outcome = ErrNotString(call[c].kind)
                             /\ call[c].pc = "TypeChecked"
                             /\ call[c].str = <<>>
            /\ IsText(c) => call[c].outcome # ErrNotString(call[c].kind)

C6_Witness ==
    \E c \in Callers :
        /\ Finished(c) /\ call[c].input.type = "int"
        /\ call[c].kind = "CPF" /\ Len(call[c].input.chars) = 11
        /\ ChecksumOK("CPF", ValuesOf(call[c].input.chars))
        /\ call[c].outcome = ErrNotString("CPF")

\* C7: the outcome for a text is the outcome for its digits alone, so texts
\* with the same digit subsequence get the same outcome.
C7_NormalizationInvariance ==
    \A c \in Callers :
        (Finished(c) /\ IsText(c))
            => call[c].outcome = Validate(call[c].kind, Str(InputDigits(c)))

C7_Witness ==
    \E c \in Callers :
        /\ Finished(c) /\ IsText(c)
        /\ \E i \in 1..Len(call[c].input.chars) : call[c].input.chars[i] = "a"
        /\ \E i \in 1..Len(call[c].input.chars) : call[c].input.chars[i] = "/"
        /\ call[c].outcome = Valid

\* C8: the published vectors: two valid and one mismatching document of each kind.
C8_KnownVectors ==
    \A c \in Callers :
        (Finished(c) /\ IsText(c)) =>
            /\ (call[c].kind = "CPF" /\ call[c].input.chars \in {CPFValid1, CPFValid2})
                  => call[c].outcome = Valid
            /\ (call[c].kind = "CPF" /\ call[c].input.chars = CPFBadCheck)
                  => call[c].outcome = "invalid CPF check digits"
            /\ (call[c].kind = "CNPJ" /\ call[c].input.chars \in {CNPJValid1, CNPJValid2})
                  => call[c].outcome = Valid
            /\ (call[c].kind = "CNPJ" /\ call[c].input.chars = CNPJBadCheck)
                  => call[c].outcome = "invalid CNPJ check digits"

C8_Witness ==
    \E c \in Callers :
        /\ Finished(c) /\ call[c].kind = "CPF"
        /\ call[c].input = Str(CPFValid2)
        /\ call[c].pc = "Compared"

\* C9: a call returns what every earlier call of the same validator on the
\* same value returned.
C9_Determinism ==
    \A c \in Callers :
        Finished(c) =>
            \A i \in 1..Len(prev[c]) :
                (prev[c][i].kind = call[c].kind /\ prev[c][i].input = call[c].input)
                    => prev[c][i].outcome = call[c].outcome

C9_Witness ==
    \E c \in Callers :
        /\ Finished(c) /\ call[c].pc = "Compared"
        /\ \E i \in 1..Len(prev[c]) :
              /\ prev[c][i].kind = call[c].kind
              /\ prev[c][i].input = call[c].input
              /\ prev[c][i].outcome = Valid

\* C10: under any interleaving of the steps of concurrent calls, each call
\* returns what it returns when run alone.
C10_ConcurrentIndependence ==
    \A c \in Callers :
        Finished(c) => call[c].outcome = Validate(call[c].kind, call[c].input)

C10_Witness ==
    \E c \in Callers, d \in Callers :
        /\ c # d
        /\ Running(c) /\ call[c].pc = "SequenceChecked"
        /\ Finished(d) /\ call[d].pc = "Compared"
        /\ call[c].kind # call[d].kind

\* C11: the normalized form of a text is its subsequence of decimal digits in
\* order; normalization never fails, and "1234567890a" leaves 10 digits, so
\* that the CPF validator fails on length.
C11_Normalizer ==
    \A c \in Callers :
        (IsText(c) /\ call[c].pc \notin {"Start", "TypeChecked"}) =>
            /\ call[c].str = DigitsOf(call[c].input.chars)
            /\ call[c].pc = "Normalized" => Running(c)
            /\ (Finished(c) /\ call[c].kind = "CPF" /\ call[c].input.chars = CPFWithLetter)
                  => (Len(call[c].str) = 10 /\ call[c].outcome = ErrLength("CPF"))

C11_Witness ==
    \E c \in Callers :
        /\ call[c].kind = "CPF" /\ call[c].pc = "Normalized" /\ Running(c)
        /\ call[c].input.chars = CPFWithLetter
        /\ Len(call[c].str) = 10

\* C20: for every 11-digit text the CPF validator returns the identical-digits
\* failure if and only if all 11 digits are the same.
C20_CPFLoopEquivalence ==
    \A c \in Callers :
        (Finished(c) /\ call[c].kind = "CPF" /\ IsText(c) /\ HasLength(c))
            => (call[c].outcome = ErrIdentical("CPF") <=> AllSame(InputDigits(c)))

(***************************************************************************)
(* Validator.String: length bounds of a text                               *)
(* A text value is a sequence of code points; the Go string holding it is  *)
(* the sequence of the bytes of its UTF-8 encoding.                        *)
(***************************************************************************)

MaxChars == 3
MaxBound == 4

\* code points of one, two and four bytes
CodePoints == {"a", " ", "U+00E9", "U+1F600"}

UTF8(cp) ==
    CASE cp = "U+00E9" -> <<"C3", "A9">>
      [] cp = "U+1F600" -> <<"F0", "9F", "98", "80">>
      [] OTHER -> <<cp>>

RECURSIVE Encode(_)
Encode(cps) == IF cps = <<>> THEN <<>> ELSE UTF8(Head(cps)) \o Encode(Tail(cps))

IsContinuation(b) == b \in {"80", "98", "9F", "A9"}

\* bytes a well-formed sequence starting with lead byte b takes
LeadWidth(b) == IF b = "C3" THEN 2 ELSE IF b = "F0" THEN 4 ELSE 1

\* variant: len(strValue), the number of bytes
ByteLen(bytes, i) == Len(bytes) - i + 1

\* utf8.RuneCountInString: an ill-formed byte counts as one rune
RECURSIVE RuneCountInString(_, _)
RuneCountInString(bytes, i) ==
    IF i > Len(bytes) THEN 0
    ELSE LET w == LeadWidth(bytes[i])
             ok == /\ i + w - 1 <= Len(bytes)
                   /\ \A j \in (i + 1)..(i + w - 1) : IsContinuation(bytes[j])
         IN  1 + RuneCountInString(bytes, IF ok THEN i + w ELSE i + 1)

ErrValueNotString == "value must be a string"
ErrTooShort == "string must be at least %d characters long"
ErrTooLong == "string must be at most %d characters long"

NewStringFrame(input, minLength, maxLength) ==
    [kind |-> "String", input |-> input, minLength |-> minLength,
     maxLength |-> maxLength, pc |-> "Start", outcome |-> Pending, arg |-> 0,
     strValue |-> <<>>, length |-> 0]

\* strValue, ok := str.(string); if !ok { return "value must be a string" }
StringTypeStep(f) ==
    IF f.input.type # "string"
    THEN Return(f, "TypeChecked", ErrValueNotString)
    ELSE [f EXCEPT !.pc = "TypeChecked", !.strValue = Encode(f.input.chars)]

\* length := utf8.RuneCountInString(strValue)
StringCountStep(f) ==
    [f EXCEPT !.pc = "Counted", !.length = RuneCountInString(f.strValue, 1)]

\* if length < minLength { return "string must be at least %d characters long" }
StringMinStep(f) ==
    IF f.length < f.minLength
    THEN [f EXCEPT !.pc = "MinChecked", !.outcome = ErrTooShort, !.arg = f.minLength]
    ELSE [f EXCEPT !.pc = "MinChecked"]

\* if length > maxLength { return "string must be at most %d characters long" }; return nil
StringMaxStep(f) ==
    IF f.length > f.maxLength
    THEN [f EXCEPT !.pc = "MaxChecked", !.outcome = ErrTooLong, !.arg = f.maxLength]
    ELSE [f EXCEPT !.pc = "MaxChecked", !.outcome = Valid]

RECURSIVE SeqsUpTo(_, _)
SeqsUpTo(S, n) ==
    IF n = 0 THEN {<<>>}
    ELSE LET T == SeqsUpTo(S, n - 1)
         IN  T \cup {Append(t, x) : t \in {u \in T : Len(u) = n - 1}, x \in S}

StringInputs ==
    {Str(s) : s \in SeqsUpTo(CodePoints, MaxChars)}
        \cup {[type |-> t, chars |-> <<>>] : t \in NonStringTypes}

InitString ==
    /\ \E v \in StringInputs, lo \in 0..MaxBound, hi \in 0..MaxBound :
          call = [c \in {1} |-> NewStringFrame(v, lo, hi)]
    /\ prev = [c \in {1} |-> <<>>]

StringTypeCheck ==
    \E c \in Callers :
        /\ Running(c) /\ call[c].pc = "Start"
        /\ Advance(c, StringTypeStep(call[c]))

StringCount ==
    \E c \in Callers :
        /\ Running(c) /\ call[c].pc = "TypeChecked"
        /\ Advance(c, StringCountStep(call[c]))

StringMinCheck ==
    \E c \in Callers :
        /\ Running(c) /\ call[c].pc = "Counted"
        /\ Advance(c, StringMinStep(call[c]))

StringMaxCheck ==
    \E c \in Callers :
        /\ Running(c) /\ call[c].pc = "MinChecked"
        /\ Advance(c, StringMaxStep(call[c]))

NextString ==
    \/ StringTypeCheck
    \/ StringCount
    \/ StringMinCheck
    \/ StringMaxCheck

SpecString == InitString /\ [][NextString]_vars

C15_WhitespaceOnly ==
    \A c \in Callers :
        (/\ Finished(c) /\ IsText(c)
         /\ \A i \in 1..Len(call[c].input.chars) : call[c].input.chars[i] = " "
         /\ call[c].minLength >= 1)
            => (call[c].outcome = ErrTooShort /\ call[c].arg = call[c].minLength)

(***************************************************************************)
(* ValidatePhone: Brazilian phone numbers                                  *)
(***************************************************************************)

MaxRest == 9

\* characters strings.TrimSpace removes at both ends
WhiteSpace == {" ", "\t", "\n", "\r"}

\* strings.TrimSpace
RECURSIVE TrimLeft(_)
TrimLeft(s) ==
    IF s # <<>> /\ Head(s) \in WhiteSpace THEN TrimLeft(Tail(s)) ELSE s

RECURSIVE TrimRight(_)
TrimRight(s) ==
    IF s # <<>> /\ s[Len(s)] \in WhiteSpace
    THEN TrimRight(SubSeq(s, 1, Len(s) - 1)) ELSE s

TrimSpace(s) == TrimRight(TrimLeft(s))

\* isEmpty: strings.TrimSpace(s) == ""
IsEmptyString(s) == TrimSpace(s) = <<>>

\* cleanPhone: regexp `[\s\.\-\(\)]` replaced by ""
CleanPhone(s) ==
    SelectSeq(s, LAMBDA c : c \notin (WhiteSpace \cup {".", "-", "(", ")"}))

\* strings.HasPrefix(s, p)
HasPrefix(s, p) == Len(s) >= Len(p) /\ SubSeq(s, 1, Len(p)) = p

CountryCode == <<"+", "5", "5">>

MobileWithCodeLen == 15
LandlineWithCodeLen == 14
MobileLen == 11
LandlineLen == 10

ValidDDDs ==
    {<<"1", "1">>, <<"1", "2">>, <<"1", "3">>, <<"1", "4">>, <<"1", "5">>, <<"1", "6">>,
     <<"1", "7">>, <<"1", "8">>, <<"1", "9">>, <<"2", "1">>, <<"2", "2">>, <<"2", "4">>,
     <<"2", "7">>, <<"2", "8">>, <<"3", "1">>, <<"3", "2">>, <<"3", "3">>, <<"3", "4">>,
     <<"3", "5">>, <<"3", "7">>, <<"3", "8">>, <<"4", "1">>, <<"4", "2">>, <<"4", "3">>,
     <<"4", "4">>, <<"4", "5">>, <<"4", "6">>, <<"4", "7">>, <<"4", "8">>, <<"4", "9">>,
     <<"5", "1">>, <<"5", "3">>, <<"5", "4">>, <<"5", "5">>, <<"6", "1">>, <<"6", "2">>,
     <<"6", "4">>, <<"6", "3">>, <<"6", "5">>, <<"6", "6">>, <<"6", "7">>, <<"6", "8">>,
     <<"6", "9">>, <<"7", "1">>, <<"7", "3">>, <<"7", "4">>, <<"7", "5">>, <<"7", "7">>,
     <<"7", "9">>, <<"8", "1">>, <<"8", "7">>, <<"8", "2">>, <<"8", "3">>, <<"8", "4">>,
     <<"8", "5">>, <<"8", "8">>, <<"8", "6">>, <<"8", "9">>, <<"9", "1">>, <<"9", "3">>,
     <<"9", "4">>, <<"9", "2">>, <<"9", "7">>, <<"9", "5">>, <<"9", "6">>, <<"9", "8">>,
     <<"9", "9">>}

\* isValidDDD: ddd is one of validDDDs
IsValidDDD(ddd) == ddd \in ValidDDDs

\* isValidPhoneDigits: regexp `^\d+$`
IsValidPhoneDigits(s) == s # <<>> /\ \A i \in 1..Len(s) : IsDigitChar(s[i])

ErrPhoneNotString == "phone must be a string"
ErrPhoneEmpty == "phone cannot be empty"
ErrPhoneFormat == "invalid Brazilian phone number format"
ErrPhoneDDD == "invalid area code (DDD)"
ErrPhoneNine == "mobile number must start with 9 after area code"
ErrPhoneDigits == "invalid phone number digits"

NewPhoneFrame(input) ==
    [kind |-> "Phone", input |-> input, pc |-> "Start", outcome |-> Pending,
     phoneStr |-> <<>>, route |-> "none", phone |-> <<>>]

\* phoneStr, ok := phone.(string)
PhoneTypeStep(f) ==
    IF f.input.type # "string"
    THEN Return(f, "TypeChecked", ErrPhoneNotString)
    ELSE [f EXCEPT !.pc = "TypeChecked", !.phoneStr = f.input.chars]

\* phoneStr = cleanPhone(phoneStr)
PhoneCleanStep(f) == [f EXCEPT !.pc = "Cleaned", !.phoneStr = CleanPhone(f.phoneStr)]

\* if isEmpty(phoneStr) { return "phone cannot be empty" }
PhoneEmptyStep(f) ==
    IF IsEmptyString(f.phoneStr)
    THEN Return(f, "EmptyChecked", ErrPhoneEmpty)
    ELSE [f EXCEPT !.pc = "EmptyChecked"]

\* variant: a text with the country code goes to validateMobile at any length
PhoneDispatchNoLengthTest(f) ==
    LET s == f.phoneStr
    IN  IF HasPrefix(s, CountryCode)
        THEN [f EXCEPT !.pc = "Dispatched", !.route = "mobile", !.phone = s]
        ELSE IF Len(s) = MobileLen
        THEN [f EXCEPT !.pc = "Dispatched", !.route = "mobile", !.phone = CountryCode \o s]
        ELSE IF Len(s) = LandlineLen
        THEN [f EXCEPT !.pc = "Dispatched", !.route = "landline", !.phone = CountryCode \o s]
        ELSE Return(f, "Dispatched", ErrPhoneFormat)

\* the four length tests of ValidatePhone, choosing the helper and its argument
PhoneDispatchStep(f) ==
    LET s == f.phoneStr
    IN  IF Len(s) = MobileWithCodeLen /\ HasPrefix(s, CountryCode)
        THEN [f EXCEPT !.pc = "Dispatched", !.route = "mobile", !.phone = s]
        ELSE IF Len(s) = LandlineWithCodeLen /\ HasPrefix(s, CountryCode)
        THEN [f EXCEPT !.pc = "Dispatched", !.route = "landline", !.phone = s]
        ELSE IF Len(s) = MobileLen
        THEN [f EXCEPT !.pc = "Dispatched", !.route = "mobile", !.phone = CountryCode \o s]
        ELSE IF Len(s) = LandlineLen
        THEN [f EXCEPT !.pc = "Dispatched", !.route = "landline", !.phone = CountryCode \o s]
        ELSE Return(f, "Dispatched", ErrPhoneFormat)

\* ddd := phone[3:5]; if !isValidDDD(ddd) { return "invalid area code (DDD)" }
PhoneDDDStep(f) ==
    IF Len(f.phone) < 5
    THEN Return(f, "DDDChecked", Panic)
    ELSE IF ~IsValidDDD(SubSeq(f.phone, 4, 5))
    THEN Return(f, "DDDChecked", ErrPhoneDDD)
    ELSE [f EXCEPT !.pc = "DDDChecked"]

\* validateMobile only: if phone[5] != '9' { return "mobile number must start with 9 ..." }
PhoneNineStep(f) ==
    IF f.route # "mobile"
    THEN [f EXCEPT !.pc = "NineChecked"]
    ELSE IF Len(f.phone) < 6
    THEN Return(f, "NineChecked", Panic)
    ELSE IF f.phone[6] # "9"
    THEN Return(f, "NineChecked", ErrPhoneNine)
    ELSE [f EXCEPT !.pc = "NineChecked"]

\* number := phone[6:] (mobile) or phone[5:] (landline); isValidPhoneDigits(number)
PhoneDigitsStep(f) ==
    LET from == IF f.route = "mobile" THEN 7 ELSE 6
    IN  IF Len(f.phone) < from - 1
        THEN Return(f, "DigitsChecked", Panic)
        ELSE IF ~IsValidPhoneDigits(SubSeq(f.phone, from, Len(f.phone)))
        THEN Return(f, "DigitsChecked", ErrPhoneDigits)
        ELSE Return(f, "DigitsChecked", Valid)

\* phone numbers of the tests and the README
PhoneTestTexts ==
    {<<"+", "5", "5", " ", "(", "4", "1", ")", " ", "3", "3", "4",
       "6", "-", "4", "4", "6", "8">>,
     <<"+", "5", "5", "4", "1", "3", "3", "4", "6", "4", "4", "6",
       "8">>,
     <<"(", "4", "1", ")", " ", "3", "3", "4", "6", "-", "4", "4",
       "6", "8">>,
     <<"+", "5", "5", " ", "(", "4", "1", ")", " ", "9", "9", "5",
       "0", "4", "-", "8", "7", "1", "0">>,
     <<"4", "1", " ", "9", ".", "9", "5", "0", "4", "-", "8", "7",
       "1", "0">>,
     <<"+", "5", "5", " ", "4", "1", " ", "8", "5", "0", "4", "-",
       "8", "7", "1", "0">>,
     <<>>,
     <<" ", " ">>}

PhonePrefixes == {<<>>, CountryCode, <<"+", "5", "6">>, <<"5", "5">>}
PhoneDDDs == {<<"4", "1">>, <<"1", "1">>, <<"0", "0">>, <<"2", "3">>}
PhoneFirstDigits == {"9", "8", "3"}

\* the subscriber part: a first digit and up to MaxRest more characters
PhoneSubscribers ==
    {<<d>> \o Text(Counting(k)) : d \in PhoneFirstDigits, k \in 0..MaxRest}
        \cup {<<d>> \o Text(Counting(k)) \o <<"a">> : d \in PhoneFirstDigits, k \in 0..MaxRest}

\* written plain, with spaces and a hyphen, or with parentheses and a dot
PhoneFormats(p, ddd, sub) ==
    {p \o ddd \o sub,
     p \o <<" ">> \o ddd \o <<" ">> \o <<Head(sub)>> \o <<"-">> \o Tail(sub),
     p \o <<" ", "(">> \o ddd \o <<")", " ">> \o <<Head(sub)>> \o <<".">> \o Tail(sub)}

PhoneTexts ==
    PhoneTestTexts \cup
    UNION {PhoneFormats(p, ddd, sub) :
              p \in PhonePrefixes, ddd \in PhoneDDDs, sub \in PhoneSubscribers}

PhoneInputs ==
    {Str(s) : s \in PhoneTexts} \cup NonStrings

InitPhone ==
    /\ \E v \in PhoneInputs : call = [c \in {1} |-> NewPhoneFrame(v)]
    /\ prev = [c \in {1} |-> <<>>]

PhoneTypeCheck ==
    \E c \in Callers :
        /\ Running(c) /\ call[c].pc = "Start"
        /\ Advance(c, PhoneTypeStep(call[c]))

PhoneClean ==
    \E c \in Callers :
        /\ Running(c) /\ call[c].pc = "TypeChecked"
        /\ Advance(c, PhoneCleanStep(call[c]))

PhoneEmptyCheck ==
    \E c \in Callers :
        /\ Running(c) /\ call[c].pc = "Cleaned"
        /\ Advance(c, PhoneEmptyStep(call[c]))

PhoneDispatch ==
    \E c \in Callers :
        /\ Running(c) /\ call[c].pc = "EmptyChecked"
        /\ Advance(c, PhoneDispatchStep(call[c]))

PhoneCheckDDD ==
    \E c \in Callers :
        /\ Running(c) /\ call[c].pc = "Dispatched"
        /\ Advance(c, PhoneDDDStep(call[c]))

PhoneCheckNine ==
    \E c \in Callers :
        /\ Running(c) /\ call[c].pc = "DDDChecked"
        /\ Advance(c, PhoneNineStep(call[c]))

PhoneCheckDigits ==
    \E c \in Callers :
        /\ Running(c) /\ call[c].pc = "NineChecked"
        /\ Advance(c, PhoneDigitsStep(call[c]))

NextPhone ==
    \/ PhoneTypeCheck
    \/ PhoneClean
    \/ PhoneEmptyCheck
    \/ PhoneDispatch
    \/ PhoneCheckDDD
    \/ PhoneCheckNine
    \/ PhoneCheckDigits

SpecPhone == InitPhone /\ [][NextPhone]_vars

\* the text without spaces, dots, hyphens and parentheses
PhoneStripped(s) == SelectSeq(s, LAMBDA ch : ch \notin {" ", ".", "-", "(", ")"})

\* the national part: the stripped text without a leading "+55"
NationalPart(s) ==
    LET t == PhoneStripped(s)
    IN  IF Len(t) >= 3 /\ SubSeq(t, 1, 3) = <<"+", "5", "5">>
        THEN SubSeq(t, 4, Len(t)) ELSE t

HasCountryCode(s) ==
    LET t == PhoneStripped(s)
    IN  Len(t) >= 3 /\ SubSeq(t, 1, 3) = <<"+", "5", "5">>

AllDigits(s) == \A i \in 1..Len(s) : s[i] \in DecimalDigits

\* a valid two-digit area code followed by n digits
IsNational(s, n) ==
    /\ Len(s) = 2 + n
    /\ AllDigits(s)
    /\ SubSeq(s, 1, 2) \in ValidDDDs

\* C12: a text that cleans to "+55", a valid area code and 8 digits is accepted.
C12_LandlineWithCountryCode ==
    \A c \in Callers :
        (/\ Finished(c) /\ IsText(c)
         /\ HasCountryCode(call[c].input.chars)
         /\ IsNational(NationalPart(call[c].input.chars), 8))
            => call[c].outcome = Valid

\* C13: a mobile number (valid area code and 9 subscriber digits, with or
\* without "+55") is accepted only if its first subscriber digit is 9, and
\* otherwise fails with the must-start-with-9 message.
C13_MobileRule ==
    \A c \in Callers :
        (/\ Finished(c) /\ IsText(c)
         /\ IsNational(NationalPart(call[c].input.chars), 9))
            => IF NationalPart(call[c].input.chars)[3] = "9"
               THEN call[c].outcome = Valid
               ELSE call[c].outcome = ErrPhoneNine

-----------------------------------------------------------------------------
\* Numbers: parseNumber, ValidateEven and ValidatePrime.
\*
\* A float64 is held as the exact fraction num/den it stands for (den > 0).
\* Within the bounds below every value is far inside the range where float64
\* holds integers exactly, so truncation and the integer test on the fraction
\* agree with the float64 operations.

MaxNumber == 26
MaxNegative == 3
MaxNumChars == 3

\* an interface{} argument: strings carry chars, numeric types carry num/den
NumArg(type, num, den) == [type |-> type, chars |-> <<>>, num |-> num, den |-> den]
NumText(chars) == [type |-> "string", chars |-> chars, num |-> 0, den |-> 1]

NumericTypes == {"int", "int64", "float32", "float64"}

ErrNumberEmpty == "number cannot be empty"
ErrParseFloat == "strconv.ParseFloat: parsing %q: invalid syntax"
ErrUnsupportedType == "unsupported number type: %T"
ErrMustBeEven == "number must be even"
ErrPrimeInteger == "prime number must be an integer"
ErrPrimeMin == "number must be at least 2 to be prime"
ErrNotPrime == "number is not prime"

RECURSIVE ParseDigits(_)
ParseDigits(s) ==
    IF s = <<>> THEN 0
    ELSE 10 * ParseDigits(SubSeq(s, 1, Len(s) - 1)) + Atoi(s[Len(s)])

RECURSIVE Pow10(_)
Pow10(k) == IF k = 0 THEN 1 ELSE 10 * Pow10(k - 1)

\* strconv.ParseFloat(s, 64) on texts of signs, digits and one decimal point:
\* an optional sign, then digits with at most one point and at least one digit
ParseFloat(s) ==
    LET signed == Len(s) > 0 /\ s[1] \in {"+", "-"}
        body == IF signed THEN Tail(s) ELSE s
        dots == {i \in 1..Len(body) : body[i] = "."}
        point == IF dots = {} THEN Len(body) + 1
                 ELSE CHOOSE i \in dots : \A j \in dots : i <= j
        intPart == SubSeq(body, 1, point - 1)
        fracPart == SubSeq(body, point + 1, Len(body))
        digits == intPart \o fracPart
        ok == /\ Len(digits) >= 1
              /\ \A i \in 1..Len(digits) : IsDigitChar(digits[i])
        mag == ParseDigits(digits)
    IN  IF ok
        THEN [ok |-> TRUE, num |-> IF s[1] = "-" THEN -mag ELSE mag,
              den |-> Pow10(Len(fracPart))]
        ELSE [ok |-> FALSE, num |-> 0, den |-> 1]

\* int(x) for a float64 x: truncation toward zero
TruncToInt(v) ==
    IF v.num >= 0 THEN v.num \div v.den ELSE -((-v.num) \div v.den)

\* Go's a % b: the sign follows the dividend
GoRem(a, b) == IF a >= 0 THEN a % b ELSE -((-a) % b)

\* int(math.Sqrt(float64(n))) for n >= 0
SqrtInt(n) == CHOOSE k \in 0..n : k * k <= n /\ (k + 1) * (k + 1) > n

NewNumberFrame(kind, input) ==
    [kind |-> kind, input |-> input, pc |-> "Start", outcome |-> Pending,
     arg |-> <<>>, parsed |-> FALSE, numValue |-> [num |-> 0, den |-> 1],
     intValue |-> 0, i |-> 0]

\* parseNumber: the type switch, and for strings TrimSpace, isEmpty, ParseFloat
ParseNumberStep(f) ==
    IF f.input.type = "string"
    THEN LET n == TrimSpace(f.input.chars)
             p == ParseFloat(n)
         IN  IF IsEmptyString(n)
             THEN Return(f, "Parsed", ErrNumberEmpty)
             ELSE IF ~p.ok
             THEN [Return(f, "Parsed", ErrParseFloat) EXCEPT !.arg = n]
             ELSE [f EXCEPT !.pc = "Parsed", !.parsed = TRUE,
                            !.numValue = [num |-> p.num, den |-> p.den]]
    ELSE IF f.input.type \in NumericTypes
    THEN [f EXCEPT !.pc = "Parsed", !.parsed = TRUE,
                   !.numValue = [num |-> f.input.num, den |-> f.input.den]]
    ELSE [Return(f, "Parsed", ErrUnsupportedType) EXCEPT !.arg = <<f.input.type>>]

\* ValidateEven: if int(numValue)%2 != 0 { return error }; return nil
EvenStep(f) ==
    IF GoRem(TruncToInt(f.numValue), 2) # 0
    THEN Return(f, "Done", ErrMustBeEven)
    ELSE Return(f, "Done", Valid)

\* ValidatePrime: intValue := int(numValue); float64(intValue) != numValue
PrimeIntStep(f) ==
    LET intValue == TruncToInt(f.numValue)
    IN  IF intValue * f.numValue.den # f.numValue.num
        THEN [Return(f, "Converted", ErrPrimeInteger) EXCEPT !.intValue = intValue]
        ELSE [f EXCEPT !.pc = "Converted", !.intValue = intValue]

\* if intValue < 2 { return error }; the loop starts with i := 2
PrimeMinStep(f) ==
    IF f.intValue < 2
    THEN Return(f, "MinChecked", ErrPrimeMin)
    ELSE [f EXCEPT !.pc = "MinChecked", !.i = 2]

\* one evaluation of the loop condition and, if it holds, of the loop body
PrimeLoopStepExclusive(f) ==
    IF f.i < SqrtInt(f.intValue)
    THEN IF f.intValue % f.i = 0
         THEN Return(f, "Done", ErrNotPrime)
         ELSE [f EXCEPT !.i = f.i + 1]
    ELSE Return(f, "Done", Valid)

PrimeLoopStep(f) ==
    IF f.i <= SqrtInt(f.intValue)
    THEN IF f.intValue % f.i = 0
         THEN Return(f, "Done", ErrNotPrime)
         ELSE [f EXCEPT !.i = f.i + 1]
    ELSE Return(f, "Done", Valid)

NumberKinds == {"Even", "Prime"}

NumberChars == {"1", "2", "4", ".", "-", "+", " ", "a"}

NumberTestTexts ==
    {<<"6">>, <<"7">>, <<"1", "3">>, <<"3", ".", "1", "4">>}

IntValues == (0 - MaxNegative)..MaxNumber

\* float64 values: the halves between the bounds, whole numbers included
Halves == {NumArg("float64", n, 2) : n \in (0 - 2 * MaxNegative)..(2 * MaxNumber)}

NumberInputs ==
    {NumText(s) : s \in SeqsUpTo(NumberChars, MaxNumChars) \cup NumberTestTexts}
        \cup {NumArg("int", n, 1) : n \in IntValues}
        \cup {NumArg(t, n, 1) : t \in {"int64", "float32"}, n \in {0 - 2, 2, 3}}
        \cup Halves
        \cup {NumArg(t, 0, 1) : t \in {"bool", "nil", "uint"}}

InitNumber ==
    /\ \E kind \in NumberKinds, v \in NumberInputs :
          call = [c \in {1} |-> NewNumberFrame(kind, v)]
    /\ prev = [c \in {1} |-> <<>>]

ParseNumber ==
    \E c \in Callers :
        /\ Running(c) /\ call[c].kind \in NumberKinds /\ call[c].pc = "Start"
        /\ Advance(c, ParseNumberStep(call[c]))

EvenCheck ==
    \E c \in Callers :
        /\ Running(c) /\ call[c].kind = "Even" /\ call[c].pc = "Parsed"
        /\ Advance(c, EvenStep(call[c]))

PrimeConvert ==
    \E c \in Callers :
        /\ Running(c) /\ call[c].kind = "Prime" /\ call[c].pc = "Parsed"
        /\ Advance(c, PrimeIntStep(call[c]))

PrimeMinCheck ==
    \E c \in Callers :
        /\ Running(c) /\ call[c].kind = "Prime" /\ call[c].pc = "Converted"
        /\ Advance(c, PrimeMinStep(call[c]))

PrimeLoop ==
    \E c \in Callers :
        /\ Running(c) /\ call[c].kind = "Prime" /\ call[c].pc = "MinChecked"
        /\ Advance(c, PrimeLoopStep(call[c]))

NextNumber ==
    \/ ParseNumber
    \/ EvenCheck
    \/ PrimeConvert
    \/ PrimeMinCheck
    \/ PrimeLoop

SpecNumber == InitNumber /\ [][NextNumber]_vars

\* the parsed number of a finished call, read as a fraction
IsWhole(v) == v.num % v.den = 0
WholeOf(v) == v.num \div v.den
IsEvenInteger(v) == IsWhole(v) /\ WholeOf(v) % 2 = 0
HasNoProperDivisor(n) == \A d \in 2..(n - 1) : n % d # 0

\* C16: ValidateEven passes exactly the even integers; every other number,
\* odd or with a fractional part, fails with "number must be even".
C16_EvenRejectsNonEven ==
    \A c \in Callers :
        (Finished(c) /\ call[c].kind = "Even" /\ call[c].parsed)
            => call[c].outcome =
                 IF IsEvenInteger(call[c].numValue) THEN Valid ELSE ErrMustBeEven

\* C17: for a parsed number ValidatePrime reports, in this order, a value
\* that is not an integer, an integer below 2, and an integer with a divisor
\* strictly between 1 and itself; it returns nil for every other number.
C17_PrimeOrder ==
    \A c \in Callers :
        (Finished(c) /\ call[c].kind = "Prime" /\ call[c].parsed)
            => LET v == call[c].numValue
               IN  call[c].outcome =
                     IF ~IsWhole(v) THEN ErrPrimeInteger
                     ELSE IF WholeOf(v) < 2 THEN ErrPrimeMin
                     ELSE IF ~HasNoProperDivisor(WholeOf(v)) THEN ErrNotPrime
                     ELSE Valid

\* a composite rejected by the last candidate divisor, its square root
C17_Witness ==
    \E c \in Callers :
        /\ Finished(c) /\ call[c].kind = "Prime" /\ call[c].parsed
        /\ call[c].outcome = ErrNotPrime
        /\ call[c].i * call[c].i = call[c].intValue
        /\ call[c].i > 2

-----------------------------------------------------------------------------
\* Email: ValidateEmail.

MaxLocal == 3
MaxDomain == 5

LowerLetters ==
    <<"a", "b", "c", "d", "e", "f", "g", "h", "i", "j", "k", "l", "m",
      "n", "o", "p", "q", "r", "s", "t", "u", "v", "w", "x", "y", "z">>

UpperLetters ==
    <<"A", "B", "C", "D", "E", "F", "G", "H", "I", "J", "K", "L", "M",
      "N", "O", "P", "Q", "R", "S", "T", "U", "V", "W", "X", "Y", "Z">>

IsLetter(ch) ==
    \E i \in 1..Len(LowerLetters) : ch = LowerLetters[i] \/ ch = UpperLetters[i]

\* strings.ToLower on ASCII text
ToLower(s) ==
    [k \in 1..Len(s) |->
        IF \E i \in 1..Len(UpperLetters) : UpperLetters[i] = s[k]
        THEN LowerLetters[CHOOSE i \in 1..Len(UpperLetters) : UpperLetters[i] = s[k]]
        ELSE s[k]]

\* cleanString(s, toLower)
CleanString(s, toLower) ==
    LET cleaned == TrimSpace(s)
    IN  IF toLower THEN ToLower(cleaned) ELSE cleaned

\* the character classes of emailRegex
IsLocalChar(ch) == IsLetter(ch) \/ IsDigitChar(ch) \/ ch \in {".", "_", "%", "+", "-"}
IsDomainChar(ch) == IsLetter(ch) \/ IsDigitChar(ch) \/ ch \in {".", "-"}

\* ^[a-zA-Z0-9._%+-]+@[a-zA-Z0-9.-]+\.[a-zA-Z]{2,}$
MatchEmailRegex(s) ==
    \E at \in 1..Len(s), dot \in 1..Len(s) :
        /\ s[at] = "@" /\ s[dot] = "."
        /\ at >= 2 /\ dot >= at + 2 /\ Len(s) >= dot + 2
        /\ \A k \in 1..(at - 1) : IsLocalChar(s[k])
        /\ \A k \in (at + 1)..(dot - 1) : IsDomainChar(s[k])
        /\ \A k \in (dot + 1)..Len(s) : IsLetter(s[k])

ErrEmailNotString == "email must be a string"
ErrEmailEmpty == "email cannot be empty"
ErrEmailFormat == "invalid email format"

NewEmailFrame(input) ==
    [kind |-> "Email", input |-> input, pc |-> "Start", outcome |-> Pending,
     emailStr |-> <<>>]

\* emailStr, ok := email.(string)
EmailTypeStep(f) ==
    IF f.input.type # "string"
    THEN Return(f, "TypeChecked", ErrEmailNotString)
    ELSE [f EXCEPT !.pc = "TypeChecked", !.emailStr = f.input.chars]

\* emailStr = cleanString(emailStr, true)
EmailCleanStep(f) ==
    [f EXCEPT !.pc = "Cleaned", !.emailStr = CleanString(f.emailStr, TRUE)]

EmailEmptyStep(f) ==
    IF IsEmptyString(f.emailStr)
    THEN Return(f, "EmptyChecked", ErrEmailEmpty)
    ELSE [f EXCEPT !.pc = "EmptyChecked"]

EmailMatchStep(f) ==
    IF ~MatchEmailRegex(f.emailStr)
    THEN Return(f, "Done", ErrEmailFormat)
    ELSE Return(f, "Done", Valid)

\* addresses of the tests
EmailTestTexts ==
    {<<"u", "s", "e", "r", "@", "e", "x", "a", "m", "p", "l", "e",
       ".", "c", "o", "m">>,
     <<"u", "s", "e", "r", ".", ".", "n", "a", "m", "e", "@", "e",
       "x", "a", "m", "p", "l", "e", ".", "c", "o", "m">>,
     <<"u", "s", "e", "r", "@", "e", "x", "a", "m", "p", "l", "e",
       ".", ".", "c", "o", "m">>,
     <<"u", "s", "e", "r", "@", "e", "x", "a", "m", "p", "l", "e">>,
     <<"u", "s", "e", "r", "@", "e", "x", "a", "m", "p", "l", "e",
       ".", "c">>,
     <<"u", "s", "e", "r", " ", "n", "a", "m", "e", "@", "e", "x",
       "a", "m", "p", "l", "e", ".", "c", "o", "m">>,
     <<"u", "s", "e", "r", "@", "e", "x", "a", "m", "p", "l", "e",
       "#", ".", "c", "o", "m">>}

EmailLocals == SeqsUpTo({"u", "."}, MaxLocal)
EmailDomains == SeqsUpTo({"e", "."}, MaxDomain)

EmailTexts ==
    EmailTestTexts
        \cup {l \o <<"@">> \o d : l \in EmailLocals, d \in EmailDomains}
        \cup {<<" ", "U", "@", "E", ".", "E", "e", " ">>, <<>>, <<" ">>,
              <<"u", ".", "e", "e">>, <<"u", "@", "@", "e", ".", "e", "e">>,
              <<"u", "@", "e", ".", "e", "1">>}

EmailInputs == {Str(s) : s \in EmailTexts} \cup NonStrings

InitEmail ==
    /\ \E v \in EmailInputs : call = [c \in {1} |-> NewEmailFrame(v)]
    /\ prev = [c \in {1} |-> <<>>]

EmailTypeCheck ==
    \E c \in Callers :
        /\ Running(c) /\ call[c].kind = "Email" /\ call[c].pc = "Start"
        /\ Advance(c, EmailTypeStep(call[c]))

EmailClean ==
    \E c \in Callers :
        /\ Running(c) /\ call[c].kind = "Email" /\ call[c].pc = "TypeChecked"
        /\ Advance(c, EmailCleanStep(call[c]))

EmailEmptyCheck ==
    \E c \in Callers :
        /\ Running(c) /\ call[c].kind = "Email" /\ call[c].pc = "Cleaned"
        /\ Advance(c, EmailEmptyStep(call[c]))

EmailMatch ==
    \E c \in Callers :
        /\ Running(c) /\ call[c].kind = "Email" /\ call[c].pc = "EmptyChecked"
        /\ Advance(c, EmailMatchStep(call[c]))

NextEmail ==
    \/ EmailTypeCheck
    \/ EmailClean
    \/ EmailEmptyCheck
    \/ EmailMatch

SpecEmail == InitEmail /\ [][NextEmail]_vars

\* two dots next to each other somewhere in the text
HasConsecutiveDots(s) ==
    \E k \in 1..(Len(s) - 1) : s[k] = "." /\ s[k + 1] = "."

\* C18: an address with two consecutive dots, in the local part or in the
\* domain, fails with "invalid email format".
C18_ConsecutiveDotsRejected ==
    \A c \in Callers :
        (Finished(c) /\ IsText(c) /\ HasConsecutiveDots(call[c].input.chars))
            => call[c].outcome = ErrEmailFormat

-----------------------------------------------------------------------------
\* ValidateMultiple and HasErrors.
\*
\* A validation is a closure returning nil or a *ValidationError; it is held
\* as the value it returns when invoked.

MaxValidations == 4

NoError == "nil"
ValidationErrors == {"email: invalid email format", "description: too short"}
ValidationResults == {NoError} \cup ValidationErrors

Returned == "returned"

NewMultipleFrame(validations) ==
    [kind |-> "Multiple", validations |-> validations, pc |-> "Loop",
     outcome |-> Pending, idx |-> 0, invoked |-> <<>>, errors |-> <<>>,
     result |-> <<>>, hasErrors |-> FALSE]

\* one iteration of the range loop: invoke the next validation and append
\* its error if it is not nil
MultiInvokeStepStopAtFirst(f) ==
    LET k == f.idx + 1
        err == f.validations[k]
    IN  [f EXCEPT !.idx = IF err # NoError THEN Len(f.validations) ELSE k,
                  !.invoked = Append(@, k),
                  !.errors = IF err # NoError THEN Append(@, err) ELSE @]

MultiInvokeStep(f) ==
    LET k == f.idx + 1
        err == f.validations[k]
    IN  [f EXCEPT !.idx = k,
                  !.invoked = Append(@, k),
                  !.errors = IF err # NoError THEN Append(@, err) ELSE @]

\* return errors
MultiReturnStep(f) == [Return(f, "Returned", Returned) EXCEPT !.result = f.errors]

\* HasErrors(errors): len(errors) > 0
HasErrors(errors) == Len(errors) > 0

HasErrorsStep(f) == [f EXCEPT !.pc = "Checked", !.hasErrors = HasErrors(f.result)]

ValidationLists == SeqsUpTo(ValidationResults, MaxValidations)

InitMultiple ==
    /\ \E vs \in ValidationLists : call = [c \in {1} |-> NewMultipleFrame(vs)]
    /\ prev = [c \in {1} |-> <<>>]

MultiInvoke ==
    \E c \in Callers :
        /\ Running(c) /\ call[c].kind = "Multiple" /\ call[c].pc = "Loop"
        /\ call[c].idx < Len(call[c].validations)
        /\ Advance(c, MultiInvokeStep(call[c]))

MultiReturn ==
    \E c \in Callers :
        /\ Running(c) /\ call[c].kind = "Multiple" /\ call[c].pc = "Loop"
        /\ call[c].idx >= Len(call[c].validations)
        /\ Advance(c, MultiReturnStep(call[c]))

CheckHasErrors ==
    \E c \in Callers :
        /\ Finished(c) /\ call[c].kind = "Multiple" /\ call[c].pc = "Returned"
        /\ Advance(c, HasErrorsStep(call[c]))

NextMultiple ==
    \/ MultiInvoke
    \/ MultiReturn
    \/ CheckHasErrors

SpecMultiple == InitMultiple /\ [][NextMultiple]_vars

\* the failures among the supplied validations, in argument order
FailuresOf(vs) == SelectSeq(vs, LAMBDA r : r # "nil")
AllPassed(vs) == \A k \in 1..Len(vs) : vs[k] = "nil"

\* C19: when ValidateMultiple has returned, the validations were invoked once
\* each in argument order, the result is exactly the non-nil errors in that
\* order, it is empty iff every validation passed, and HasErrors of the
\* result is true iff the result is not empty.
C19_AllValidationsRun ==
    \A c \in Callers :
        (Finished(c) /\ call[c].kind = "Multiple")
            => /\ call[c].invoked = [k \in 1..Len(call[c].validations) |-> k]
               /\ call[c].result = FailuresOf(call[c].validations)
               /\ (call[c].result = <<>>) <=> AllPassed(call[c].validations)
               /\ call[c].pc = "Checked"
                    => (call[c].hasErrors <=> call[c].result # <<>>)

\* a failure first, then a pass, then another failure: both are returned
C19_Witness ==
    \E c \in Callers :
        /\ Finished(c) /\ call[c].kind = "Multiple" /\ call[c].pc = "Checked"
        /\ Len(call[c].validations) >= 3
        /\ call[c].validations[1] # "nil"
        /\ call[c].validations[2] = "nil"
        /\ call[c].validations[3] # "nil"
        /\ Len(call[c].result) >= 2
        /\ call[c].hasErrors

(***************************************************************************)
(* C21..C26: the CPF and CNPJ validators                                   *)
(***************************************************************************)

\* C21: a call that returns valid was given a text whose digits have the
\* required length, are not all the same, and end in the two check digits
\* computed from the digits before them.
C21_AcceptanceSound ==
    \A c \in Callers :
        (Finished(c) /\ call[c].kind \in Kinds /\ call[c].outcome = Valid)
            => /\ IsText(c)
               /\ HasLength(c)
               /\ ~AllSame(InputDigits(c))
               /\ ChecksumOK(call[c].kind, ValuesOf(InputDigits(c)))

C21_Witness ==
    \E c \in Callers :
        /\ Finished(c) /\ call[c].kind = "CPF" /\ call[c].outcome = Valid
        /\ call[c].input = Str(CPFValid1)
        /\ call[c].checkDigits = <<"3", "5">>

\* the check digit the rule gives a remainder: 0 for 0 and 1, else 11 - r
DigitOfRemainder(r) == IF r \in {0, 1} THEN 0 ELSE 11 - r

\* C22: once the check digits are computed, each remainder is in 0..10, each
\* check digit is the digit of its remainder and lies in 0..9, and the second
\* sum counts the first check digit as the digit appended to the base.
C22_CheckDigitRange ==
    \A c \in Callers :
        (call[c].kind \in Kinds /\ call[c].pc \in {"CheckDigitsComputed", "Compared"})
            => /\ Len(call[c].baseDigits) = PublishedLen(call[c].kind) - 2
               /\ call[c].sum1 % 11 \in 0..10
               /\ call[c].sum2 % 11 \in 0..10
               /\ call[c].firstCheckDigit = DigitOfRemainder(call[c].sum1 % 11)
               /\ call[c].secondCheckDigit = DigitOfRemainder(call[c].sum2 % 11)
               /\ call[c].firstCheckDigit \in 0..9
               /\ call[c].secondCheckDigit \in 0..9
               /\ call[c].sum2 =
                     DotProduct(Append(ValuesOf(call[c].baseDigits),
                                       call[c].firstCheckDigit),
                                PublishedWeights2(call[c].kind), 1)

\* a base whose first remainder is 1: the first check digit is 0, not 10
C22_Witness ==
    \E c \in Callers :
        /\ call[c].kind \in Kinds /\ call[c].pc = "CheckDigitsComputed"
        /\ call[c].sum1 % 11 = 1
        /\ call[c].firstCheckDigit = 0

\* C23: no call ends in an index-out-of-range panic; past the length check
\* the normalized text has the required length, so the first digit, the base
\* and check-digit slices and weights[i] are read inside their sequences, and
\* the second loop runs over as many digits as the second table has weights
\* (10 for CPF, 13 for CNPJ).
C23_NoOutOfBounds ==
    \A c \in Callers :
        call[c].kind \in Kinds =>
            /\ call[c].outcome # Panic
            /\ (Running(c) /\ call[c].pc \in {"LengthChecked", "SequenceChecked",
                                               "CheckDigitsComputed"})
                  => Len(call[c].str) = PublishedLen(call[c].kind)
            /\ call[c].pc \in {"CheckDigitsComputed", "Compared"}
                  => /\ Len(call[c].baseDigits) = Len(Weights1(call[c].kind))
                     /\ Len(call[c].baseDigits) + 1 = Len(Weights2(call[c].kind))
                     /\ Len(call[c].baseDigits) + 1 = IF call[c].kind = "CPF" THEN 10 ELSE 13
                     /\ Len(call[c].checkDigits) = 2

\* the empty text is stopped by the length check of the CNPJ validator
C23_Witness ==
    \E c \in Callers :
        /\ Finished(c) /\ call[c].kind = "CNPJ" /\ call[c].input = Str(<<>>)
        /\ call[c].pc = "LengthChecked"
        /\ call[c].outcome = ErrLength("CNPJ")

\* the last two digits of the input text
SuppliedCheckDigits(c) ==
    SubSeq(InputDigits(c), Len(InputDigits(c)) - 1, Len(InputDigits(c)))

\* C24: from the end of the length check on, no step changes the normalized
\* text, and the check digits that are compared are the last two digits of
\* the input.
C24_NormalizedUnchanged ==
    [][\A c \in Callers :
          (call[c].kind \in Kinds /\ Running(c)
             /\ call[c].pc \in {"LengthChecked", "SequenceChecked", "CheckDigitsComputed"})
              => /\ call'[c].str = call[c].str
                 /\ call'[c].str = InputDigits(c)
                 /\ call'[c].pc \in {"CheckDigitsComputed", "Compared"}
                       => call'[c].checkDigits = SuppliedCheckDigits(c)]_vars

\* a CNPJ whose supplied check digits differ from the computed ones
C24_Witness ==
    \E c \in Callers :
        /\ call[c].kind = "CNPJ" /\ call[c].pc = "Compared"
        /\ call[c].outcome = ErrCheckDigits("CNPJ")
        /\ call[c].str = InputDigits(c)
        /\ call[c].checkDigits = SuppliedCheckDigits(c)
        /\ call[c].checkDigits # call[c].expectedCheckDigits

\* the stages in program order
StageOrder ==
    <<"Start", "TypeChecked", "Normalized", "LengthChecked", "SequenceChecked",
      "CheckDigitsComputed", "Compared">>
StageRank(pc) == CHOOSE i \in 1..Len(StageOrder) : StageOrder[i] = pc

\* the outcomes a validator may return
ClosedOutcomes(kind) ==
    IF kind = "CPF"
    THEN {"nil", "CPF must be a string", "CPF must have exactly 11 digits",
          "CPF cannot be a sequence of identical digits", "invalid CPF check digits"}
    ELSE {"nil", "CNPJ must be a string", "CNPJ must have exactly 14 digits",
          "CNPJ cannot be a sequence of identical digits", "invalid CNPJ check digits"}

\* C25: every call terminates with one outcome of the closed set; each step
\* moves a running call to the next stage in order, a finished call takes no
\* further step, and a call that reaches Compared is finished.
C25_TerminatesInOrder ==
    /\ <>(\A c \in Callers : Finished(c))
    /\ [](\A c \in Callers :
            /\ call[c].pc \in {StageOrder[i] : i \in 1..Len(StageOrder)}
            /\ Finished(c) => call[c].outcome \in ClosedOutcomes(call[c].kind)
            /\ call[c].pc = "Compared" => Finished(c))
    /\ [][\A c \in Callers :
            /\ Finished(c) => call'[c] = call[c]
            /\ call'[c] # call[c] =>
                  StageRank(call'[c].pc) = StageRank(call[c].pc) + 1]_vars

\* a CPF call ended by the identical-digits test: later stages never ran
C25_Witness ==
    \E c \in Callers :
        /\ Finished(c) /\ call[c].kind = "CPF" /\ call[c].pc = "SequenceChecked"
        /\ call[c].outcome = ErrIdentical("CPF")
        /\ call[c].baseDigits = <<>> /\ call[c].expectedCheckDigits = <<>>

\* the texts that differ from ds in exactly one position
SingleDigitErrors(ds) ==
    {[ds EXCEPT ![i] = d] : i \in 1..Len(ds), d \in DecimalDigits} \ {ds}

\* every single-digit error of the digits of an accepted CPF is refused
ErrorsDetected(c) ==
    \A e \in SingleDigitErrors(InputDigits(c)) : Validate("CPF", Str(e)) # Valid

\* C26: replacing exactly one digit of an accepted CPF by a different digit
\* gives a sequence the CPF validator does not accept.
C26_TranscriptionDetected ==
    \A c \in Callers :
        (Finished(c) /\ call[c].kind = "CPF" /\ call[c].outcome = Valid)
            => ErrorsDetected(c)

\* C26 as amended: replacing exactly one digit of an accepted CPF whose first
\* check digit (the tenth digit) is not 0 gives a sequence the CPF validator
\* does not accept.
C26_DetectedWhenFirstCheckNonZero ==
    \A c \in Callers :
        (Finished(c) /\ call[c].kind = "CPF" /\ call[c].outcome = Valid
           /\ InputDigits(c)[10] # "0")
            => ErrorsDetected(c)

\* an accepted CPF with a non-zero first and a zero second check digit
C26_Witness ==
    \E c \in Callers :
        /\ Finished(c) /\ call[c].kind = "CPF" /\ call[c].outcome = Valid
        /\ InputDigits(c)[10] # "0"
        /\ InputDigits(c)[11] = "0"
        /\ ErrorsDetected(c)

(***************************************************************************)
(* C27, C29: ValidatePhone                                                 *)
(***************************************************************************)

\* C27: an accepted phone number has a national part (the text without
\* spaces, dots, hyphens, parentheses and a leading "+55") of exactly 10 or
\* 11 digits, and a number whose national part has another count of digits
\* fails with the format message.
C27_AcceptedDigitCount ==
    \A c \in Callers :
        (Finished(c) /\ call[c].kind = "Phone" /\ IsText(c)) =>
            LET national == NationalPart(call[c].input.chars)
            IN  /\ call[c].outcome = Valid
                    => (AllDigits(national) /\ Len(national) \in {10, 11})
                /\ (national # <<>> /\ AllDigits(national)
                      /\ Len(national) \notin {10, 11})
                    => call[c].outcome = ErrPhoneFormat

\* C29: validateMobile and validateLandline are given at least 13 characters
\* on every path (15 or 14 with "+55", or "+55" put before 11 or 10
\* characters), so phone[3:5], phone[5] and phone[6:] / phone[5:] are read
\* inside the text and no call ends in an index-out-of-range panic.
C29_HelpersInBounds ==
    \A c \in Callers :
        call[c].kind = "Phone" =>
            /\ call[c].outcome # Panic
            /\ call[c].route # "none" =>
                  /\ Len(call[c].phone) >= 13
                  /\ \/ call[c].phone = call[c].phoneStr
                           /\ Len(call[c].phone) \in {14, 15}
                     \/ call[c].phone = <<"+", "5", "5">> \o call[c].phoneStr
                           /\ Len(call[c].phoneStr) \in {10, 11}
                  /\ call[c].route = "mobile" => Len(call[c].phone) >= 14

\* the shortest argument: "+55" put before a 10-character text
C29_Witness ==
    \E c \in Callers :
        /\ call[c].kind = "Phone" /\ Finished(c) /\ call[c].pc = "DigitsChecked"
        /\ call[c].route = "landline"
        /\ Len(call[c].phone) = 13
        /\ Len(call[c].phoneStr) = 10

(***************************************************************************)
(* ValidateURL                                                             *)
(* Texts are made of letters, digits, ":", "/", "?", "#", "." and spaces:  *)
(* no "%" escapes, control characters, "@" or "[".                         *)
(***************************************************************************)

MaxHostLen == 2

ErrURLNotString == "URL must be a string"
ErrURLEmpty == "URL cannot be empty"
ErrURLParse == "invalid URL format: %w"
ErrURLScheme == "URL must include a scheme (http:// or https://)"
ErrURLHost == "URL must include a host"
ErrURLAccess == "URL is not accessible: %w"
ErrURLStatus == "URL returned status %d, expected 200"
StatusOK == 200

\* position of the first / last ch in s, 0 when there is none
IndexOf(s, ch) ==
    IF \E i \in 1..Len(s) : s[i] = ch
    THEN CHOOSE i \in 1..Len(s) : s[i] = ch /\ \A j \in 1..(i - 1) : s[j] # ch
    ELSE 0
LastIndexOf(s, ch) ==
    IF \E i \in 1..Len(s) : s[i] = ch
    THEN CHOOSE i \in 1..Len(s) : s[i] = ch /\ \A j \in (i + 1)..Len(s) : s[j] # ch
    ELSE 0

\* the part of s before the first ch
Before(s, ch) == IF IndexOf(s, ch) = 0 THEN s ELSE SubSeq(s, 1, IndexOf(s, ch) - 1)

\* net/url getScheme: letters, then ":"; a ":" in front is an error
RECURSIVE GetScheme(_, _)
GetScheme(s, i) ==
    IF i > Len(s) THEN [err |-> FALSE, scheme |-> <<>>, rest |-> s]
    ELSE IF IsLetter(s[i]) THEN GetScheme(s, i + 1)
    ELSE IF IsDigitChar(s[i]) \/ s[i] \in {"+", "-", "."}
    THEN IF i = 1 THEN [err |-> FALSE, scheme |-> <<>>, rest |-> s]
         ELSE GetScheme(s, i + 1)
    ELSE IF s[i] = ":"
    THEN IF i = 1 THEN [err |-> TRUE, scheme |-> <<>>, rest |-> s]
         ELSE [err |-> FALSE, scheme |-> SubSeq(s, 1, i - 1),
               rest |-> SubSeq(s, i + 1, Len(s))]
    ELSE [err |-> FALSE, scheme |-> <<>>, rest |-> s]

\* net/url parseHost: host characters, and digits only after the last ":"
IsHostChar(ch) == IsLetter(ch) \/ IsDigitChar(ch) \/ ch \in {"-", ".", "_", "~", ":"}
ValidHost(host) ==
    /\ \A i \in 1..Len(host) : IsHostChar(host[i])
    /\ LastIndexOf(host, ":") > 0
          => \A i \in (LastIndexOf(host, ":") + 1)..Len(host) : IsDigitChar(host[i])

\* url.Parse: the fragment and the query are cut off, the scheme is read, and
\* after "//" the authority up to the next "/" is the host
ParseURL(rawURL) ==
    LET s == GetScheme(Before(rawURL, "#"), 1)
        rest == Before(s.rest, "?")
        scheme == ToLower(s.scheme)
        failed == [err |-> TRUE, scheme |-> <<>>, host |-> <<>>]
    IN  IF s.err THEN failed
        ELSE IF ~HasPrefix(rest, <<"/">>)
        THEN IF scheme # <<>>
             THEN [err |-> FALSE, scheme |-> scheme, host |-> <<>>]
             ELSE IF IndexOf(Before(rest, "/"), ":") > 0 THEN failed
             ELSE [err |-> FALSE, scheme |-> scheme, host |-> <<>>]
        ELSE IF HasPrefix(rest, <<"/", "/">>)
                  /\ (scheme # <<>> \/ ~HasPrefix(rest, <<"/", "/", "/">>))
        THEN LET authority == Before(SubSeq(rest, 3, Len(rest)), "/")
             IN  IF ValidHost(authority)
                 THEN [err |-> FALSE, scheme |-> scheme, host |-> authority]
                 ELSE failed
        ELSE [err |-> FALSE, scheme |-> scheme, host |-> <<>>]

\* what client.Head can come back with: an error, or a response with a status
ProbeError == 0
ProbeResults == {ProbeError, 200, 301, 403, 404, 500}

\* the client sends requests for http and https only
ClientHead(scheme, result) ==
    IF scheme \in {<<"h", "t", "t", "p">>, <<"h", "t", "t", "p", "s">>} THEN result ELSE ProbeError

NewURLFrame(input) ==
    [kind |-> "URL", input |-> input, pc |-> "Start", outcome |-> Pending,
     urlStr |-> <<>>, parsedURL |-> [err |-> FALSE, scheme |-> <<>>, host |-> <<>>],
     requests |-> 0, status |-> 0]

\* urlStr, ok := urlStr.(string)
URLTypeStep(f) ==
    IF f.input.type # "string"
    THEN Return(f, "TypeChecked", ErrURLNotString)
    ELSE [f EXCEPT !.pc = "TypeChecked", !.urlStr = f.input.chars]

\* urlStr = cleanString(urlStr, false); if isEmpty(urlStr) { return error }
URLEmptyStep(f) ==
    LET cleaned == CleanString(f.urlStr, FALSE)
    IN  IF IsEmptyString(cleaned)
        THEN [Return(f, "EmptyChecked", ErrURLEmpty) EXCEPT !.urlStr = cleaned]
        ELSE [f EXCEPT !.pc = "EmptyChecked", !.urlStr = cleaned]

\* parsedURL, err := url.Parse(urlStr)
URLParseStep(f) ==
    LET parsedURL == ParseURL(f.urlStr)
    IN  IF parsedURL.err
        THEN [Return(f, "Parsed", ErrURLParse) EXCEPT !.parsedURL = parsedURL]
        ELSE [f EXCEPT !.pc = "Parsed", !.parsedURL = parsedURL]

\* if parsedURL.Scheme == "" { return error }
URLSchemeStep(f) ==
    IF f.parsedURL.scheme = <<>>
    THEN Return(f, "SchemeChecked", ErrURLScheme)
    ELSE [f EXCEPT !.pc = "SchemeChecked"]

\* variant: the host is not tested
URLHostStepSkipped(f) == [f EXCEPT !.pc = "HostChecked"]

\* if parsedURL.Host == "" { return error }
URLHostStep(f) ==
    IF f.parsedURL.host = <<>>
    THEN Return(f, "HostChecked", ErrURLHost)
    ELSE [f EXCEPT !.pc = "HostChecked"]

\* resp, err := client.Head(urlStr); if err != nil { return error }
URLProbeStep(f, result) ==
    LET resp == ClientHead(f.parsedURL.scheme, result)
    IN  IF resp = ProbeError
        THEN [Return(f, "Probed", ErrURLAccess) EXCEPT !.requests = @ + 1]
        ELSE [f EXCEPT !.pc = "Probed", !.requests = @ + 1, !.status = resp]

\* if resp.StatusCode != http.StatusOK { return error }; return nil
URLStatusStep(f) ==
    IF f.status # StatusOK
    THEN Return(f, "Done", ErrURLStatus)
    ELSE Return(f, "Done", Valid)

\* URLs of the tests
URLTestTexts ==
    {<<"h", "t", "t", "p", ":", "/", "/", "e", "x", "a", "m", "p", "l", "e", ".", "c", "o", "m">>,
     <<"h", "t", "t", "p", "s", ":", "/", "/", "e", "x", "a", "m", "p", "l", "e", ".", "c", "o", "m", "/", "p", "a", "t", "h">>,
     <<"e", "x", "a", "m", "p", "l", "e", ".", "c", "o", "m">>,
     <<"f", "t", "p", ":", "/", "/", "e", "x", "a", "m", "p", "l", "e", ".", "c", "o", "m">>,
     <<"h", "t", "t", "p", "s", ":", "/", "/">>,
     <<"h", "t", "t", "p", "s", ":", "/", "/", "e", "x", "a", "m", "p", "l", "e", " ", ".", "c", "o", "m">>,
     <<"/", "/", "e", "x", "a", "m", "p", "l", "e", ".", "c", "o", "m">>,
     <<"h", "t", "t", "p", "s", ":", "/", "/", "e", "x", "a", "m", "p", "l", "e", ".", "c", "o", "m", "?", "q", "=", "1">>,
     <<"h", "t", "t", "p", "s", ":", "/", "/", "e", "x", "a", "m", "p", "l", "e", ".", "c", "o", "m", "#">>,
     <<" ", "h", "t", "t", "p", "s", ":", "/", "/", "e", "x", "a", "m", "p", "l", "e", ".", "c", "o", "m">>,
     <<"H", "T", "T", "P", "S", ":", "/", "/", "e", "x", "a", "m", "p", "l", "e", ".", "c", "o", "m">>,
     <<"h", "t", "t", "p", "s", ":", "/", "/", "l", "o", "c", "a", "l", "h", "o", "s", "t", ":", "8", "0", "8", "0">>,
     <<>>,
     <<" ", " ", " ">>}

URLSchemes == {<<>>, <<"h", "t", "t", "p">>, <<"h", "t", "t", "p", "s">>, <<"f", "t", "p">>, <<"H", "T", "T", "P">>}
URLSeparators == {<<>>, <<":">>, <<":", "/", "/">>, <<"/", "/">>, <<":", "/", "/", "/">>}
URLHosts == SeqsUpTo({"h", ":", " ", "8"}, MaxHostLen)
URLPaths == {<<>>, <<"/", "p">>, <<"/", "p", " ", "p">>}

URLTexts ==
    URLTestTexts \cup
    {s \o sep \o h \o p : s \in URLSchemes, sep \in URLSeparators,
                           h \in URLHosts, p \in URLPaths}

URLInputs == {Str(s) : s \in URLTexts} \cup NonStrings

InitURL ==
    /\ \E v \in URLInputs : call = [c \in {1} |-> NewURLFrame(v)]
    /\ prev = [c \in {1} |-> <<>>]

URLTypeCheck ==
    \E c \in Callers :
        /\ Running(c) /\ call[c].kind = "URL" /\ call[c].pc = "Start"
        /\ Advance(c, URLTypeStep(call[c]))

URLEmptyCheck ==
    \E c \in Callers :
        /\ Running(c) /\ call[c].kind = "URL" /\ call[c].pc = "TypeChecked"
        /\ Advance(c, URLEmptyStep(call[c]))

URLParse ==
    \E c \in Callers :
        /\ Running(c) /\ call[c].kind = "URL" /\ call[c].pc = "EmptyChecked"
        /\ Advance(c, URLParseStep(call[c]))

URLSchemeCheck ==
    \E c \in Callers :
        /\ Running(c) /\ call[c].kind = "URL" /\ call[c].pc = "Parsed"
        /\ Advance(c, URLSchemeStep(call[c]))

URLHostCheck ==
    \E c \in Callers :
        /\ Running(c) /\ call[c].kind = "URL" /\ call[c].pc = "SchemeChecked"
        /\ Advance(c, URLHostStep(call[c]))

URLProbe ==
    \E c \in Callers, result \in ProbeResults :
        /\ Running(c) /\ call[c].kind = "URL" /\ call[c].pc = "HostChecked"
        /\ Advance(c, URLProbeStep(call[c], result))

URLStatusCheck ==
    \E c \in Callers :
        /\ Running(c) /\ call[c].kind = "URL" /\ call[c].pc = "Probed"
        /\ Advance(c, URLStatusStep(call[c]))

NextURL ==
    \/ URLTypeCheck
    \/ URLEmptyCheck
    \/ URLParse
    \/ URLSchemeCheck
    \/ URLHostCheck
    \/ URLProbe
    \/ URLStatusCheck

SpecURL == InitURL /\ [][NextURL]_vars

\* the messages of the checks that come before the probe
URLCheckMessages ==
    {"URL must be a string", "URL cannot be empty", "invalid URL format: %w",
     "URL must include a scheme (http:// or https://)", "URL must include a host"}

\* C28: a HEAD request is made at most once and only for a non-empty text
\* that parsed with a scheme and a host; a call ended by one of the earlier
\* checks has made no request; and nil is returned only after a request that
\* was answered with status 200.
C28_ProbeComesLast ==
    \A c \in Callers :
        call[c].kind = "URL" =>
            /\ call[c].requests \in {0, 1}
            /\ call[c].requests = 1 =>
                  /\ IsText(c)
                  /\ call[c].urlStr # <<>>
                  /\ ~call[c].parsedURL.err
                  /\ call[c].parsedURL.scheme # <<>>
                  /\ call[c].parsedURL.host # <<>>
                  /\ call[c].pc \in {"Probed", "Done"}
            /\ call[c].outcome \in URLCheckMessages => call[c].requests = 0
            /\ (Finished(c) /\ ~IsText(c)) => call[c].outcome = "URL must be a string"
            /\ call[c].outcome = Valid =>
                  (call[c].requests = 1 /\ call[c].status = 200)

\* "https://" is stopped by the host check and no request is made
C28_Witness ==
    \E c \in Callers :
        /\ call[c].kind = "URL" /\ Finished(c)
        /\ call[c].outcome = "URL must include a host"
        /\ call[c].parsedURL.scheme = <<"h", "t", "t", "p", "s">>
        /\ call[c].requests = 0

====
